---------------------------- MODULE Spec2Model ----------------------------
(***************************************************************************)
(* Model of src/src/routes/package.js: the package routes of the Gren      *)
(* package site (latest-version redirect, overview page, module page) and  *)
(* the helpers they call (link construction, exposed-module index,         *)
(* doc-comment parsing, symbol lookup).                                    *)
(*                                                                         *)
(* A JavaScript string is a sequence of one-character strings, so that     *)
(* encoding, splitting, trimming and slicing are computed as the code      *)
(* computes them.  The only multi-character element is the "@docs"         *)
(* delimiter of a doc comment, which no other element can form a part of.  *)
(***************************************************************************)
EXTENDS Integers, Sequences, FiniteSets

VARIABLES
    versionRows,   \* rows of the store for the stored package, in row order
    req,           \* the request the router last dispatched
    ctx,           \* the Koa context after the handler ran
    moduleInfo,    \* a parsed module of the docs list (comment + 4 tables)
    docResult,     \* what prepareModuleDocumentation / constructValue returned
    metadataObj,   \* a parsed metadata object on the heap
    indexRuns,     \* the index returned by each run over metadataObj
    linkArgs,      \* arguments of a prepareModuleForView call
    linkResult     \* what that call returned

vars == <<versionRows, req, ctx, moduleInfo, docResult, metadataObj,
          indexRuns, linkArgs, linkResult>>

-----------------------------------------------------------------------------
(* Bounds of the model.                                                    *)

MaxVersions == 3
MaxCommentLen == 4
MaxModules == 2
MaxNameLen == 3
MaxRuns == 2

-----------------------------------------------------------------------------
(* Sequences.                                                              *)

Range(s) == {s[i] : i \in 1..Len(s)}

RECURSIVE Flatten(_)
Flatten(ss) == IF ss = <<>> THEN <<>> ELSE Head(ss) \o Flatten(Tail(ss))

Map(F(_), s) == [i \in 1..Len(s) |-> F(s[i])]

\* Sequences over S without repetition, of length at most n.
SeqsNoRep(S, n) ==
    {s \in UNION {[1..k -> S] : k \in 0..n} :
        \A i, j \in 1..Len(s) : i # j => s[i] # s[j]}

SeqsUpTo(S, n) == UNION {[1..k -> S] : k \in 0..n}

\* String.prototype.split on a one-element separator: always at least one part.
RECURSIVE split(_, _)
split(s, sep) ==
    IF \A i \in 1..Len(s) : s[i] # sep
    THEN <<s>>
    ELSE LET k == CHOOSE i \in 1..Len(s) :
                      s[i] = sep /\ \A j \in 1..(i - 1) : s[j] # sep
         IN  <<SubSeq(s, 1, k - 1)>> \o split(SubSeq(s, k + 1, Len(s)), sep)


-----------------------------------------------------------------------------
(* encodeURIComponent (ECMAScript): every character except letters,        *)
(* digits and - _ . ! ~ * ' ( ) becomes the %XX of its UTF-8 byte.         *)

Reserved == {"/", "%", " ", "+", ",", "[", "]"}

PercentCode(c) ==
    CASE c = "/" -> <<"%", "2", "F">>
      [] c = "%" -> <<"%", "2", "5">>
      [] c = " " -> <<"%", "2", "0">>
      [] c = "+" -> <<"%", "2", "B">>
      [] c = "," -> <<"%", "2", "C">>
      [] c = "[" -> <<"%", "5", "B">>
      [] c = "]" -> <<"%", "5", "D">>

EncodeChar(c) == IF c \in Reserved THEN PercentCode(c) ELSE <<c>>

encodeURIComponent(str) == Flatten([i \in 1..Len(str) |-> EncodeChar(str[i])])

\* String(value) of a JavaScript value: a string is itself, a plain object
\* is "[object Object]".
ObjectObject ==
    <<"[", "o", "b", "j", "e", "c", "t", " ", "O", "b", "j", "e", "c", "t", "]">>

JsString(s) == [t |-> "string", v |-> s]

StringOf(value) == IF value.t = "string" THEN value.v ELSE ObjectObject

-----------------------------------------------------------------------------
(* Link construction.                                                      *)

PackagePath == <<"/", "p", "a", "c", "k", "a", "g", "e", "/">>
VersionPath == <<"/", "v", "e", "r", "s", "i", "o", "n", "/">>
OverviewPath == <<"/", "o", "v", "e", "r", "v", "i", "e", "w">>
ModulePath == <<"/", "m", "o", "d", "u", "l", "e", "/">>

packageOverviewLink(packageName, version) ==
    LET packageNameUri == encodeURIComponent(packageName)
        versionUri == encodeURIComponent(version)
    IN  PackagePath \o packageNameUri \o VersionPath \o versionUri
            \o OverviewPath

\* A mutant: the module name goes into the link as it is.
prepareModuleForView_rawModule(packageName, version, moduleName) ==
    [t |-> "object",
     name |-> moduleName,
     link |-> PackagePath \o encodeURIComponent(packageName) \o VersionPath
                  \o encodeURIComponent(version) \o ModulePath
                  \o StringOf(moduleName)]

\* moduleName is a JavaScript value: encodeURIComponent converts it to a
\* string first, and the name field keeps the value itself.
prepareModuleForView(packageName, version, moduleName) ==
    LET packageNameUri == encodeURIComponent(packageName)
        versionUri == encodeURIComponent(version)
        moduleUri == encodeURIComponent(StringOf(moduleName))
    IN  [t |-> "object",
         name |-> moduleName,
         link |-> PackagePath \o packageNameUri \o VersionPath \o versionUri
                      \o ModulePath \o moduleUri]

-----------------------------------------------------------------------------
(* semver.rcompare (node-semver): MAJOR.MINOR.PATCH[-PRERELEASE][+BUILD].  *)

Digits == {"0", "1", "2", "3", "4", "5", "6", "7", "8", "9"}

DigitValue(c) ==
    CASE c = "0" -> 0 [] c = "1" -> 1 [] c = "2" -> 2 [] c = "3" -> 3
      [] c = "4" -> 4 [] c = "5" -> 5 [] c = "6" -> 6 [] c = "7" -> 7
      [] c = "8" -> 8 [] c = "9" -> 9

\* Code unit of a character of a pre-release identifier.
CharCode(c) ==
    CASE c \in Digits -> 48 + DigitValue(c)
      [] c = "a" -> 97 [] c = "b" -> 98 [] c = "c" -> 99 [] c = "r" -> 114

RECURSIVE ParseNat(_)
ParseNat(s) ==
    IF s = <<>> THEN 0
    ELSE 10 * ParseNat(SubSeq(s, 1, Len(s) - 1)) + DigitValue(s[Len(s)])

IsNumeric(s) == s # <<>> /\ \A i \in 1..Len(s) : s[i] \in Digits

\* The first index of c in s, or 0.
IndexOf(s, c) ==
    IF \E i \in 1..Len(s) : s[i] = c
    THEN CHOOSE i \in 1..Len(s) : s[i] = c /\ \A j \in 1..(i - 1) : s[j] # c
    ELSE 0

\* new SemVer(version): build metadata is dropped, the pre-release is the
\* dot-separated list after the first hyphen.
SemVer(version) ==
    LET plus == IndexOf(version, "+")
        noBuild == IF plus = 0 THEN version
                   ELSE SubSeq(version, 1, plus - 1)
        hyphen == IndexOf(noBuild, "-")
        main == IF hyphen = 0 THEN noBuild
                ELSE SubSeq(noBuild, 1, hyphen - 1)
        nums == split(main, ".")
    IN  [major |-> ParseNat(nums[1]),
         minor |-> ParseNat(nums[2]),
         patch |-> ParseNat(nums[3]),
         prerelease |-> IF hyphen = 0 THEN <<>>
                        ELSE split(SubSeq(noBuild, hyphen + 1, Len(noBuild)),
                                   ".")]

RECURSIVE StringCompare(_, _)
StringCompare(a, b) ==
    CASE a = <<>> /\ b = <<>> -> 0
      [] a = <<>> /\ b # <<>> -> -1
      [] a # <<>> /\ b = <<>> -> 1
      [] OTHER ->
            IF CharCode(Head(a)) < CharCode(Head(b)) THEN -1
            ELSE IF CharCode(Head(a)) > CharCode(Head(b)) THEN 1
            ELSE StringCompare(Tail(a), Tail(b))

NumCompare(a, b) == IF a < b THEN -1 ELSE IF a > b THEN 1 ELSE 0

compareIdentifiers(a, b) ==
    CASE IsNumeric(a) /\ IsNumeric(b) -> NumCompare(ParseNat(a), ParseNat(b))
      [] IsNumeric(a) /\ ~IsNumeric(b) -> -1
      [] ~IsNumeric(a) /\ IsNumeric(b) -> 1
      [] OTHER -> StringCompare(a, b)

compareMain(a, b) ==
    IF a.major # b.major THEN NumCompare(a.major, b.major)
    ELSE IF a.minor # b.minor THEN NumCompare(a.minor, b.minor)
    ELSE NumCompare(a.patch, b.patch)

RECURSIVE comparePreFrom(_, _, _)
comparePreFrom(a, b, i) ==
    CASE i > Len(a) /\ i > Len(b) -> 0
      [] i <= Len(a) /\ i > Len(b) -> 1
      [] i > Len(a) /\ i <= Len(b) -> -1
      [] OTHER -> IF a[i] = b[i] THEN comparePreFrom(a, b, i + 1)
                  ELSE compareIdentifiers(a[i], b[i])

comparePre(a, b) ==
    CASE a.prerelease # <<>> /\ b.prerelease = <<>> -> -1
      [] a.prerelease = <<>> /\ b.prerelease # <<>> -> 1
      [] a.prerelease = <<>> /\ b.prerelease = <<>> -> 0
      [] OTHER -> comparePreFrom(a.prerelease, b.prerelease, 1)

compare(a, b) ==
    LET x == SemVer(a)
        y == SemVer(b)
    IN  IF compareMain(x, y) # 0 THEN compareMain(x, y) ELSE comparePre(x, y)

\* A mutant: the ascending comparison.
rcompare_ascending(a, b) == compare(a, b)

rcompare(a, b) == compare(b, a)

\* Array.prototype.sort with rcompare: a stable sort, here by insertion.
RECURSIVE InsertSorted(_, _)
InsertSorted(sorted, x) ==
    IF sorted = <<>> THEN <<x>>
    ELSE IF rcompare(Head(sorted), x) <= 0
         THEN <<Head(sorted)>> \o InsertSorted(Tail(sorted), x)
         ELSE <<x>> \o sorted

RECURSIVE sort(_)
sort(xs) ==
    IF xs = <<>> THEN <<>>
    ELSE InsertSorted(sort(SubSeq(xs, 1, Len(xs) - 1)), xs[Len(xs)])

-----------------------------------------------------------------------------
(* Doc comments: whitespace, trimming, and the renderer.                   *)

Delim == "\n@docs"
Whitespace == {" "}

RECURSIVE trimLeft(_)
trimLeft(s) ==
    IF s # <<>> /\ Head(s) \in Whitespace THEN trimLeft(Tail(s)) ELSE s

RECURSIVE trimRight(_)
trimRight(s) ==
    IF s # <<>> /\ s[Len(s)] \in Whitespace
    THEN trimRight(SubSeq(s, 1, Len(s) - 1))
    ELSE s

trim(s) == trimRight(trimLeft(s))

\* String.prototype.split(/\s+/): splits at every maximal run of whitespace;
\* the empty string gives one empty word.
RECURSIVE splitWhitespace(_)
splitWhitespace(s) ==
    IF \A i \in 1..Len(s) : s[i] \notin Whitespace
    THEN <<s>>
    ELSE LET k == CHOOSE i \in 1..Len(s) :
                      /\ s[i] \in Whitespace
                      /\ \A j \in 1..(i - 1) : s[j] \notin Whitespace
             rest == trimLeft(SubSeq(s, k, Len(s)))
         IN  <<SubSeq(s, 1, k - 1)>> \o splitWhitespace(rest)

\* markdown.render of plain prose: blank text renders to nothing, other
\* text to one paragraph of the text without its surrounding whitespace.
render(txt) ==
    IF trim(txt) = <<>> THEN <<>> ELSE <<"<p>">> \o trim(txt) \o <<"</p>">>

Markdown(txt) == [kind |-> "Markdown", html |-> render(txt)]

Value(name, comment, type) ==
    [kind |-> "Value", name |-> name, comment |-> render(comment),
     type |-> type]

Binop(name, comment, type) ==
    [kind |-> "Binop", name |-> name, comment |-> render(comment),
     type |-> type]

Union(name, comment, args, tags) ==
    [kind |-> "Union", name |-> name, comment |-> render(comment),
     args |-> args, tags |-> tags]

Alias(name, comment, args, type) ==
    [kind |-> "Alias", name |-> name, comment |-> render(comment),
     args |-> args, type |-> type]

\* The value of a function that returns nothing, and of find without a match.
Undefined == [kind |-> "undefined"]

findByName(list, name) ==
    IF \E i \in 1..Len(list) : list[i].name = name
    THEN list[CHOOSE i \in 1..Len(list) :
                 /\ list[i].name = name
                 /\ \A j \in 1..(i - 1) : list[j].name # name]
    ELSE Undefined

\* A mutant: binops are searched before values.
constructValue_binopsFirst(info, name) ==
    CASE findByName(info.binops, name) # Undefined ->
            LET data == findByName(info.binops, name)
            IN  Binop(name, data.comment, data.type)
      [] findByName(info.values, name) # Undefined ->
            LET data == findByName(info.values, name)
            IN  Value(name, data.comment, data.type)
      [] findByName(info.unions, name) # Undefined ->
            LET data == findByName(info.unions, name)
            IN  Union(name, data.comment, data.args, data.tags)
      [] findByName(info.aliases, name) # Undefined ->
            LET data == findByName(info.aliases, name)
            IN  Alias(name, data.comment, data.args, data.type)
      [] OTHER -> Undefined

constructValue(info, name) ==
    IF findByName(info.values, name) # Undefined
    THEN LET data == findByName(info.values, name)
         IN  Value(name, data.comment, data.type)
    ELSE IF findByName(info.binops, name) # Undefined
    THEN LET data == findByName(info.binops, name)
         IN  Binop(name, data.comment, data.type)
    ELSE IF findByName(info.unions, name) # Undefined
    THEN LET data == findByName(info.unions, name)
         IN  Union(name, data.comment, data.args, data.tags)
    ELSE IF findByName(info.aliases, name) # Undefined
    THEN LET data == findByName(info.aliases, name)
         IN  Alias(name, data.comment, data.args, data.type)
    ELSE Undefined

\* A mutant: a reference that resolves to nothing is left out.
DocBlock_omitUnresolved(info, block) ==
    LET words == splitWhitespace(trim(block))
        part == constructValue(info, words[1])
        found == IF part = Undefined THEN <<>> ELSE <<part>>
    IN  IF Len(words) = 1 THEN found
        ELSE found \o <<Markdown(SubSeq(trimLeft(block), Len(words[1]) + 1,
                                        Len(trimLeft(block))))>>

\* The callback of the second flatMap: what one comma-separated block
\* contributes.
DocBlock(info, block) ==
    LET words == splitWhitespace(trim(block))
    IN  IF Len(words) = 0 THEN <<>>
        ELSE LET firstWord == words[1]
                 part == constructValue(info, firstWord)
             IN  IF Len(words) = 1 THEN <<part>>
                 ELSE LET moreMarkdown ==
                              Markdown(SubSeq(trimLeft(block),
                                              Len(firstWord) + 1,
                                              Len(trimLeft(block))))
                      IN  <<part, moreMarkdown>>

prepareModuleDocumentation(info) ==
    LET docSplit == split(info.comment, Delim)
    IN  IF Len(docSplit) = 0 THEN <<>>
        ELSE LET intro == Markdown(docSplit[1])
                 blocks == Flatten([i \in 1..Len(Tail(docSplit)) |->
                                       split(Tail(docSplit)[i], ",")])
                 parts == Flatten([i \in 1..Len(blocks) |->
                                      DocBlock(info, blocks[i])])
             IN  <<intro>> \o parts

-----------------------------------------------------------------------------
(* The exposed-module index.  A JavaScript array is [t |-> "array", items],*)
(* a plain object is [t |-> "object", entries]: its <<key, value>> pairs   *)
(* in property order.                                                      *)

JsArray(items) == [t |-> "array", items |-> items]
JsObject(entries) == [t |-> "object", entries |-> entries]

IsArray(value) == value.t = "array"

\* object[key] = value: an existing key keeps its place, a new one is added
\* last.
SetProperty(entries, key, value) ==
    IF \E i \in 1..Len(entries) : entries[i][1] = key
    THEN [i \in 1..Len(entries) |->
             IF entries[i][1] = key THEN <<key, value>> ELSE entries[i]]
    ELSE entries \o << <<key, value>> >>

\* The for loop over Object.entries(exposedModules), from its i-th entry on:
\* the entries were read before the loop, the assignments go to the object.
RECURSIVE MapEntries(_, _, _, _, _)
MapEntries(packageName, version, snapshot, entries, i) ==
    IF i > Len(snapshot) THEN entries
    ELSE LET key == snapshot[i][1]
             value == snapshot[i][2]
             links == JsArray([k \in 1..Len(value.items) |->
                         prepareModuleForView(packageName, version,
                                              value.items[k])])
         IN  MapEntries(packageName, version, snapshot,
                        SetProperty(entries, key, links), i + 1)

\* The call: what it returns, and the metadata object it leaves behind.  A
\* flat list is wrapped in a new object; a mapping is the metadata's own
\* object, updated in place.
prepareExposedModulesViewCall(packageName, version, obj) ==
    LET given == obj.exposedModules
        exposedModules == IF IsArray(given)
                          THEN JsObject(<< <<<<>>, given>> >>)
                          ELSE given
        returned == JsObject(MapEntries(packageName, version,
                                        exposedModules.entries,
                                        exposedModules.entries, 1))
    IN  [returned |-> returned,
         metadataObj |-> IF IsArray(given) THEN obj
                         ELSE [obj EXCEPT !.exposedModules = returned]]

\* A mutant: a flat list is returned as a list of links, not as a mapping.
prepareExposedModulesView_flat(packageName, version, obj) ==
    IF IsArray(obj.exposedModules)
    THEN JsArray([k \in 1..Len(obj.exposedModules.items) |->
                     prepareModuleForView(packageName, version,
                                          obj.exposedModules.items[k])])
    ELSE prepareExposedModulesViewCall(packageName, version, obj).returned

prepareExposedModulesView(packageName, version, obj) ==
    prepareExposedModulesViewCall(packageName, version, obj).returned

-----------------------------------------------------------------------------
(* The store behind #db/packages: one stored package with its version      *)
(* rows; every stored version has an overview row.                         *)

StoredPackage == <<"a", "/", "b">>
OtherPackage == <<"c">>
PackageNames == {StoredPackage, OtherPackage}

V100 == <<"1", ".", "0", ".", "0">>
V153 == <<"1", ".", "5", ".", "3">>
V1100 == <<"1", ".", "1", "0", ".", "0">>
V200 == <<"2", ".", "0", ".", "0">>
V200b == <<"2", ".", "0", ".", "0", "+", "b">>
V200rc == <<"2", ".", "0", ".", "0", "-", "r", "c">>
V200rc1 == <<"2", ".", "0", ".", "0", "-", "r", "c", ".", "1">>
VersionPool == {V100, V153, V1100, V200, V200b, V200rc, V200rc1}

ModA == <<"A">>
ModAB == <<"A", ".", "B">>
ModZ == <<"Z">>

NameF == <<"f">>
NameG == <<"g">>

ValueRecord(name) == [name |-> name, comment |-> <<"v">>, type |-> <<"t">>]
BinopRecord(name) == [name |-> name, comment |-> <<"b">>, type |-> <<"t">>]
UnionRecord(name) ==
    [name |-> name, comment |-> <<"u">>, args |-> <<>>, tags |-> <<>>]
AliasRecord(name) ==
    [name |-> name, comment |-> <<"a">>, args |-> <<>>, type |-> <<"t">>]

\* The docs JSON of every stored version: two modules.
StoredDocs ==
    << [name |-> ModA,
        comment |-> <<"i", Delim, " ", "f", ",", " ", "g", " ", "f">>,
        values |-> <<ValueRecord(NameF)>>, binops |-> <<>>,
        unions |-> <<UnionRecord(NameG)>>, aliases |-> <<>>],
       [name |-> ModAB,
        comment |-> <<"i">>,
        values |-> <<>>, binops |-> <<>>, unions |-> <<>>, aliases |-> <<>>] >>

\* The metadata JSON of a stored version: a flat list in the 1.x versions,
\* a mapping from 2.0.0 on.
StoredMetadata(version) ==
    IF SemVer(version).major = 1
    THEN [exposedModules |-> JsArray(<<JsString(ModA), JsString(ModAB)>>)]
    ELSE [exposedModules |->
             JsObject(<< <<<<"C">>, JsArray(<<JsString(ModA)>>)>>,
                         <<<<"E">>, JsArray(<<JsString(ModAB)>>)>> >>)]

existingVersions(packageName) ==
    IF packageName = StoredPackage
    THEN [i \in 1..Len(versionRows) |-> [version |-> versionRows[i]]]
    ELSE <<>>

\* Absence is signalled by the value, not by an exception.
getPackageOverview(packageName, version) ==
    IF packageName = StoredPackage /\ version \in Range(versionRows)
    THEN [name |-> packageName, version |-> version, readme |-> <<"r">>,
          metadata |-> StoredMetadata(version), docs |-> StoredDocs]
    ELSE Undefined

-----------------------------------------------------------------------------
(* The Koa context of one request, and views.render.                       *)

Formats == {"markup", "structured", "text"}

NoRequest == [route |-> "none"]

\* A fresh context: Koa answers 404 until a handler sets something.
FreshCtx ==
    [status |-> 404, redirect |-> <<>>, threw |-> "none", shaped |-> <<>>,
     body |-> Undefined]

\* An exception that leaves the handler: Koa answers 500.
Thrown(error) == [FreshCtx EXCEPT !.status = 500, !.threw = error]

Returned(value) == [ok |-> TRUE, value |-> value]
Raised(error) == [ok |-> FALSE, error |-> error]

\* views.render(ctx, {html, json, text}): runs the one function of the
\* negotiated format; its value becomes the body.
views_render(format, html, json, text) ==
    LET which == CASE format = "markup" -> "html"
                   [] format = "structured" -> "json"
                   [] format = "text" -> "text"
        outcome == CASE which = "html" -> html
                     [] which = "json" -> json
                     [] which = "text" -> text
    IN  IF outcome.ok
        THEN [FreshCtx EXCEPT !.status = 200, !.shaped = <<which>>,
                              !.body = outcome.value]
        ELSE [Thrown(outcome.error) EXCEPT !.shaped = <<which>>]

-----------------------------------------------------------------------------
(* The routes.                                                             *)

\* router.get("/:package")
PackageRoute(packageName) ==
    LET versionRowsOfPackage == existingVersions(packageName)
        versionsOfPackage == [i \in 1..Len(versionRowsOfPackage) |->
                                 versionRowsOfPackage[i].version]
    IN  IF Len(versionsOfPackage) = 0
        THEN [FreshCtx EXCEPT !.status = 404]
        ELSE LET latestVersion == sort(versionsOfPackage)[1]
                 packageNameUri == encodeURIComponent(packageName)
                 versionUri == encodeURIComponent(latestVersion)
             IN  [FreshCtx EXCEPT !.status = 303,
                     !.redirect = PackagePath \o packageNameUri
                         \o VersionPath \o versionUri \o OverviewPath]

\* router.get("/:package/version/:version/overview").  Reading a property
\* of an absent packageInfo throws a TypeError; the json and text functions
\* read docs, which no scope declares: a ReferenceError.
OverviewRoute(packageName, version, format) ==
    LET packageInfo == getPackageOverview(packageName, version)
    IN  IF packageInfo = Undefined THEN Thrown("TypeError")
        ELSE LET renderedMarkdown == render(packageInfo.readme)
                 metadata == packageInfo.metadata
                 exposedModules ==
                     prepareExposedModulesView(packageName, version, metadata)
             IN  views_render(format,
                     Returned([view |-> "packageOverview",
                               packageName |-> packageInfo.name,
                               packageVersion |-> packageInfo.version,
                               packageOverviewLink |->
                                   packageOverviewLink(packageName, version),
                               readme |-> renderedMarkdown,
                               exposedModules |-> exposedModules]),
                     Raised("ReferenceError"),
                     Raised("ReferenceError"))

\* router.get("/:package/version/:version/module/:module")
ModuleRoute(packageName, version, moduleName, format) ==
    LET packageInfo == getPackageOverview(packageName, version)
    IN  IF packageInfo = Undefined THEN Thrown("TypeError")
        ELSE LET docs == packageInfo.docs
                 found == findByName(docs, moduleName)
             IN  IF found = Undefined
                 THEN [FreshCtx EXCEPT !.status = 404]
                 ELSE LET metadata == packageInfo.metadata
                          exposedModules ==
                              prepareExposedModulesView(packageName, version,
                                                        metadata)
                          moduleDocumentation ==
                              prepareModuleDocumentation(found)
                      IN  views_render(format,
                              Returned([view |-> "packageModule",
                                        packageName |-> packageName,
                                        packageVersion |-> version,
                                        packageOverviewLink |->
                                            packageOverviewLink(packageName,
                                                                version),
                                        moduleName |-> moduleName,
                                        moduleDocs |-> moduleDocumentation,
                                        exposedModules |-> exposedModules]),
                              Returned(found),
                              Returned(moduleDocumentation))

-----------------------------------------------------------------------------
(* The routes as a state machine: the store is fixed at the start, every   *)
(* request runs its handler to the end on a fresh context, and the context *)
(* is dropped once the response is sent.                                   *)

VersionLists == SeqsNoRep(VersionPool, MaxVersions)

InitRoutes ==
    /\ versionRows \in VersionLists
    /\ req = NoRequest
    /\ ctx = FreshCtx
    /\ moduleInfo = Undefined
    /\ docResult = Undefined
    /\ metadataObj = Undefined
    /\ indexRuns = <<>>
    /\ linkArgs = Undefined
    /\ linkResult = Undefined

GetPackage(packageName) ==
    /\ req = NoRequest
    /\ req' = [route |-> "package", package |-> packageName,
               version |-> <<>>, module |-> <<>>, format |-> "none"]
    /\ ctx' = PackageRoute(packageName)
    /\ UNCHANGED <<versionRows, moduleInfo, docResult, metadataObj,
                   indexRuns, linkArgs, linkResult>>

GetOverview(packageName, version, format) ==
    /\ req = NoRequest
    /\ req' = [route |-> "overview", package |-> packageName,
               version |-> version, module |-> <<>>, format |-> format]
    /\ ctx' = OverviewRoute(packageName, version, format)
    /\ UNCHANGED <<versionRows, moduleInfo, docResult, metadataObj,
                   indexRuns, linkArgs, linkResult>>

GetModule(packageName, version, moduleName, format) ==
    /\ req = NoRequest
    /\ req' = [route |-> "module", package |-> packageName,
               version |-> version, module |-> moduleName, format |-> format]
    /\ ctx' = ModuleRoute(packageName, version, moduleName, format)
    /\ UNCHANGED <<versionRows, moduleInfo, docResult, metadataObj,
                   indexRuns, linkArgs, linkResult>>

Respond ==
    /\ req # NoRequest
    /\ req' = NoRequest
    /\ ctx' = FreshCtx
    /\ UNCHANGED <<versionRows, moduleInfo, docResult, metadataObj,
                   indexRuns, linkArgs, linkResult>>

NextRoutes ==
    \/ Respond
    \/ \E p \in PackageNames : GetPackage(p)
    \/ \E p \in PackageNames, v \in VersionPool, f \in Formats :
           GetOverview(p, v, f)
    \/ \E p \in PackageNames, v \in VersionPool, m \in {ModA, ModAB, ModZ},
          f \in Formats : GetModule(p, v, m, f)

SpecRoutes == InitRoutes /\ [][NextRoutes]_vars

-----------------------------------------------------------------------------
(* prepareExposedModulesView run, and run again, over one parsed metadata  *)
(* object.                                                                 *)

ModuleLists == SeqsUpTo({JsString(ModA), JsString(ModAB)}, MaxModules)
GroupKeys == {<<>>, <<"C">>, <<"E">>}

MetadataPool ==
    {[exposedModules |-> JsArray(list)] : list \in ModuleLists}
    \cup
    {[exposedModules |->
         JsObject([i \in 1..Len(keys) |-> <<keys[i], JsArray(lists[i])>>])] :
       keys \in SeqsNoRep(GroupKeys, Cardinality(GroupKeys)),
       lists \in [1..Cardinality(GroupKeys) -> ModuleLists]}

InitIndex ==
    /\ linkArgs \in [packageName : PackageNames, version : {V200b},
                     original : MetadataPool]
    /\ metadataObj = linkArgs.original
    /\ indexRuns = <<>>
    /\ versionRows = <<>>
    /\ req = NoRequest
    /\ ctx = Undefined
    /\ moduleInfo = Undefined
    /\ docResult = Undefined
    /\ linkResult = Undefined

NormalizeIndex ==
    /\ Len(indexRuns) < MaxRuns
    /\ indexRuns' = Append(indexRuns,
           prepareExposedModulesView(linkArgs.packageName, linkArgs.version,
                                     metadataObj))
    /\ metadataObj' =
           prepareExposedModulesViewCall(linkArgs.packageName,
               linkArgs.version, metadataObj).metadataObj
    /\ UNCHANGED <<versionRows, req, ctx, moduleInfo, docResult, linkArgs,
                   linkResult>>

NextIndex == NormalizeIndex

SpecIndex == InitIndex /\ [][NextIndex]_vars

-----------------------------------------------------------------------------
(* The two link builders over arbitrary path segments.                     *)

NameAlphabet == {"A", ".", "/", "%", " ", "2", "F"}
SegmentPool == {StoredPackage, OtherPackage, V200b, <<"%", "2", "F">>}

InitLinks ==
    /\ linkArgs \in [packageName : SegmentPool, version : SegmentPool,
                     moduleName : SeqsUpTo(NameAlphabet, MaxNameLen)]
    /\ linkResult = [op |-> "none"]
    /\ versionRows = <<>>
    /\ req = NoRequest
    /\ ctx = Undefined
    /\ moduleInfo = Undefined
    /\ docResult = Undefined
    /\ metadataObj = Undefined
    /\ indexRuns = <<>>

CallPrepareModuleForView ==
    /\ linkResult' = [op |-> "prepareModuleForView",
                      out |-> prepareModuleForView(linkArgs.packageName,
                                  linkArgs.version,
                                  JsString(linkArgs.moduleName))]
    /\ UNCHANGED <<versionRows, req, ctx, moduleInfo, docResult, metadataObj,
                   indexRuns, linkArgs>>

CallPackageOverviewLink ==
    /\ linkResult' = [op |-> "packageOverviewLink",
                      out |-> packageOverviewLink(linkArgs.packageName,
                                                  linkArgs.version)]
    /\ UNCHANGED <<versionRows, req, ctx, moduleInfo, docResult, metadataObj,
                   indexRuns, linkArgs>>

NextLinks == CallPrepareModuleForView \/ CallPackageOverviewLink

SpecLinks == InitLinks /\ [][NextLinks]_vars

-----------------------------------------------------------------------------
(* prepareModuleDocumentation over every short comment.                    *)

CommentAlphabet == {Delim, ",", " ", "f", "g"}

InitDocs ==
    /\ moduleInfo \in
           [name : {ModA},
            comment : SeqsUpTo(CommentAlphabet, MaxCommentLen),
            values : {<<>>, <<ValueRecord(NameF)>>},
            binops : {<<>>, <<BinopRecord(NameF)>>},
            unions : {<<>>},
            aliases : {<<>>, <<AliasRecord(NameG)>>}]
    /\ docResult = [op |-> "none"]
    /\ versionRows = <<>>
    /\ req = NoRequest
    /\ ctx = Undefined
    /\ metadataObj = Undefined
    /\ indexRuns = <<>>
    /\ linkArgs = Undefined
    /\ linkResult = Undefined

CallPrepareModuleDocumentation ==
    /\ docResult' = [op |-> "prepareModuleDocumentation",
                     out |-> prepareModuleDocumentation(moduleInfo)]
    /\ UNCHANGED <<versionRows, req, ctx, moduleInfo, metadataObj, indexRuns,
                   linkArgs, linkResult>>

NextDocs == CallPrepareModuleDocumentation

SpecDocs == InitDocs /\ [][NextDocs]_vars

-----------------------------------------------------------------------------
(* constructValue over every arrangement of two names in the four tables.  *)

TableNames == {<<>>, <<NameF>>, <<NameG>>, <<NameF, NameG>>, <<NameG, NameF>>}
LookupNames == {NameF, NameG, <<"F">>, <<"f", " ">>, <<>>}

InitLookup ==
    /\ \E v \in TableNames, b \in TableNames, u \in TableNames,
          a \in TableNames :
           moduleInfo = [name |-> ModA, comment |-> <<>>,
                         values |-> [i \in 1..Len(v) |-> ValueRecord(v[i])],
                         binops |-> [i \in 1..Len(b) |-> BinopRecord(b[i])],
                         unions |-> [i \in 1..Len(u) |-> UnionRecord(u[i])],
                         aliases |-> [i \in 1..Len(a) |-> AliasRecord(a[i])]]
    /\ docResult = [op |-> "none"]
    /\ versionRows = <<>>
    /\ req = NoRequest
    /\ ctx = Undefined
    /\ metadataObj = Undefined
    /\ indexRuns = <<>>
    /\ linkArgs = Undefined
    /\ linkResult = Undefined

CallConstructValue(name) ==
    /\ docResult' = [op |-> "constructValue", name |-> name,
                     out |-> constructValue(moduleInfo, name)]
    /\ UNCHANGED <<versionRows, req, ctx, moduleInfo, metadataObj, indexRuns,
                   linkArgs, linkResult>>

NextLookup == \E name \in LookupNames : CallConstructValue(name)

SpecLookup == InitLookup /\ [][NextLookup]_vars

-----------------------------------------------------------------------------
(* Properties of the routes (SpecRoutes).                                  *)

OverviewStored == getPackageOverview(req.package, req.version) # Undefined

ModuleListed == \E i \in 1..Len(StoredDocs) : StoredDocs[i].name = req.module

NotFoundAnswer ==
    ctx.status = 404 /\ ctx.threw = "none" /\ ctx.redirect = <<>>

\* C1: every not-found condition is answered 404 and never by an exception:
\* (i) a package without versions, with no redirect; (ii) a package and
\* version without a stored overview, on the overview route and on the
\* module route; (iii) a module name that the docs list lacks.
C1_NotFoundIsSurfaced ==
    /\ (req.route = "package" /\ existingVersions(req.package) = <<>>)
          => NotFoundAnswer
    /\ (req.route \in {"overview", "module"} /\ ~OverviewStored)
          => NotFoundAnswer
    /\ (req.route = "module" /\ OverviewStored /\ ~ModuleListed)
          => NotFoundAnswer

\* The pool's version strings as read by hand:
\* <<major, minor, patch, has a pre-release>>.
RefVersion(v) ==
    CASE v = V100 -> <<1, 0, 0, FALSE>>
      [] v = V153 -> <<1, 5, 3, FALSE>>
      [] v = V1100 -> <<1, 10, 0, FALSE>>
      [] v = V200 -> <<2, 0, 0, FALSE>>
      [] v = V200b -> <<2, 0, 0, FALSE>>
      [] v = V200rc -> <<2, 0, 0, TRUE>>
      [] v = V200rc1 -> <<2, 0, 0, TRUE>>

\* a >= b: major, then minor, then patch, numerically; with these equal, a
\* version with a pre-release is before the one without.
PrecedenceGE(a, b) ==
    LET x == RefVersion(a)
        y == RefVersion(b)
    IN  \/ x[1] > y[1]
        \/ x[1] = y[1] /\ x[2] > y[2]
        \/ x[1] = y[1] /\ x[2] = y[2] /\ x[3] > y[3]
        \/ x[1] = y[1] /\ x[2] = y[2] /\ x[3] = y[3] /\ (~x[4] \/ y[4])

\* C2: for a package with at least one version the route redirects (303) to
\* the overview link of a version of the list that is greater than or equal
\* to every version of the list under semantic-version precedence.
C2_LatestVersionIsMaximal ==
    (req.route = "package" /\ existingVersions(req.package) # <<>>) =>
        /\ ctx.status = 303
        /\ ctx.threw = "none"
        /\ \E v \in Range(versionRows) :
              /\ ctx.redirect = packageOverviewLink(req.package, v)
              /\ \A w \in Range(versionRows) : PrecedenceGE(v, w)

C2_Witness ==
    /\ req.route = "package"
    /\ versionRows = <<V100, V200, V153>>
    /\ ctx.status = 303
    /\ ctx.redirect = packageOverviewLink(StoredPackage, V200)

\* C3: for every recognized format and every stored package version (and,
\* on the module page, every listed module) exactly one shaping function
\* runs and it produces its payload without failing.
C3_OneShapingFunctionSucceeds ==
    (/\ req.route \in {"overview", "module"}
     /\ OverviewStored
     /\ req.route = "module" => ModuleListed) =>
        /\ Len(ctx.shaped) = 1
        /\ ctx.threw = "none"
        /\ ctx.status = 200

-----------------------------------------------------------------------------
(* Properties of the exposed-module index (SpecIndex).                     *)

LinkNames(arr) == [k \in 1..Len(arr.items) |-> arr.items[k].name]

IsModuleLinks(arr) ==
    /\ arr.t = "array"
    /\ \A k \in 1..Len(arr.items) :
          DOMAIN arr.items[k] = {"t", "name", "link"}

\* C4: the first run over a parsed metadata returns a mapping; a flat list
\* becomes the one group keyed by the empty string, a mapping keeps its own
\* keys in their order, and every group lists, in the input order, one
\* ModuleLink {name, link} per module name, its name being that module name.
C4_MappingFormKeepsOrder ==
    Len(indexRuns) >= 1 =>
        LET given == linkArgs.original.exposedModules
            out == indexRuns[1]
        IN  /\ out.t = "object"
            /\ \A i \in 1..Len(out.entries) : IsModuleLinks(out.entries[i][2])
            /\ IF given.t = "array"
               THEN /\ Len(out.entries) = 1
                    /\ out.entries[1][1] = <<>>
                    /\ LinkNames(out.entries[1][2]) = given.items
               ELSE /\ Len(out.entries) = Len(given.entries)
                    /\ \A i \in 1..Len(given.entries) :
                          /\ out.entries[i][1] = given.entries[i][1]
                          /\ LinkNames(out.entries[i][2])
                                 = given.entries[i][2].items

C4_Witness ==
    /\ Len(indexRuns) >= 1
    /\ linkArgs.original.exposedModules =
           JsObject(<< <<<<"E">>, JsArray(<<JsString(ModAB)>>)>>,
                       <<<<"C">>,
                         JsArray(<<JsString(ModAB), JsString(ModA)>>)>> >>)
    /\ indexRuns[1].entries[2][1] = <<"C">>
    /\ LinkNames(indexRuns[1].entries[2][2])
           = <<JsString(ModAB), JsString(ModA)>>

\* C8: a second run of the index normalization over the same metadata
\* object returns the same index as the first run.  (The doc-comment half
\* of the claim holds: prepareModuleDocumentation writes nothing.)
C8_SecondRunSameIndex ==
    Len(indexRuns) >= 2 => indexRuns[2] = indexRuns[1]

-----------------------------------------------------------------------------
(* Properties of the links (SpecLinks).                                    *)

\* decodeURIComponent over the codes of Reserved; any other code is kept
\* as "?".
DecodeCode(h, l) ==
    IF \E c \in Reserved : PercentCode(c) = <<"%", h, l>>
    THEN CHOOSE c \in Reserved : PercentCode(c) = <<"%", h, l>>
    ELSE "?"

RECURSIVE PercentDecode(_)
PercentDecode(s) ==
    IF s = <<>> THEN <<>>
    ELSE IF Head(s) = "%" /\ Len(s) >= 3
         THEN <<DecodeCode(s[2], s[3])>> \o PercentDecode(SubSeq(s, 4, Len(s)))
         ELSE <<Head(s)>> \o PercentDecode(Tail(s))

\* C5: a link is /package/{name}/version/{version}/module/{module} (or
\* .../overview): cut at the path separators it has exactly these segments,
\* and percent-decoding the name, version and module segments gives back
\* the package name, the version and the module name.
C5_LinkSegmentsRoundTrip ==
    /\ linkResult.op = "prepareModuleForView" =>
          LET parts == split(linkResult.out.link, "/")
          IN  /\ linkResult.out.name = JsString(linkArgs.moduleName)
              /\ Len(parts) = 7
              /\ parts[1] = <<>>
              /\ parts[2] = <<"p", "a", "c", "k", "a", "g", "e">>
              /\ PercentDecode(parts[3]) = linkArgs.packageName
              /\ parts[4] = <<"v", "e", "r", "s", "i", "o", "n">>
              /\ PercentDecode(parts[5]) = linkArgs.version
              /\ parts[6] = <<"m", "o", "d", "u", "l", "e">>
              /\ PercentDecode(parts[7]) = linkArgs.moduleName
    /\ linkResult.op = "packageOverviewLink" =>
          LET parts == split(linkResult.out, "/")
          IN  /\ Len(parts) = 6
              /\ parts[1] = <<>>
              /\ parts[2] = <<"p", "a", "c", "k", "a", "g", "e">>
              /\ PercentDecode(parts[3]) = linkArgs.packageName
              /\ parts[4] = <<"v", "e", "r", "s", "i", "o", "n">>
              /\ PercentDecode(parts[5]) = linkArgs.version
              /\ parts[6] = <<"o", "v", "e", "r", "v", "i", "e", "w">>

C5_Witness ==
    /\ linkResult.op = "prepareModuleForView"
    /\ linkArgs.packageName = StoredPackage
    /\ linkArgs.version = V200b
    /\ linkArgs.moduleName = <<"A", "/", "%">>
    /\ split(linkResult.out.link, "/")[7]
           = <<"A", "%", "2", "F", "%", "2", "5">>

-----------------------------------------------------------------------------
(* Properties of the doc-comment parser (SpecDocs) and of the symbol       *)
(* lookup (SpecLookup).                                                    *)

NodeKinds == {"Markdown", "Value", "Binop", "Union", "Alias"}

InTable(list, name) == \E i \in 1..Len(list) : list[i].name = name

Resolves(info, name) ==
    \/ InTable(info.values, name)
    \/ InTable(info.binops, name)
    \/ InTable(info.unions, name)
    \/ InTable(info.aliases, name)

Intro(comment) == split(comment, Delim)[1]

\* The comma-separated sub-blocks: cut at the delimiter first, then at the
\* commas.
SubBlocks(comment) ==
    LET directives == Tail(split(comment, Delim))
    IN  Flatten([i \in 1..Len(directives) |-> split(directives[i], ",")])

BlockWords(block) == splitWhitespace(trim(block))

IsEmptyBlock(block) == trim(block) = <<>>

Remainder(block) ==
    SubSeq(trimLeft(block), Len(BlockWords(block)[1]) + 1,
           Len(trimLeft(block)))

\* What a sub-block contributes by the claims: nothing when it is empty,
\* else the node of its first token, then the prose after it if any.
ClaimedNodes(info, block) ==
    IF IsEmptyBlock(block) THEN <<>>
    ELSE IF Len(BlockWords(block)) = 1
         THEN <<constructValue(info, BlockWords(block)[1])>>
         ELSE <<constructValue(info, BlockWords(block)[1]),
                Markdown(Remainder(block))>>

\* C6: the result is the ProseNode of the intro followed by the nodes of
\* every sub-block in order (symbol node, then the prose of the remainder
\* when there is more than one token); without a delimiter it is the one
\* ProseNode of the whole comment.  Stated here for the comments whose
\* every reference resolves.
C6_IntroThenBlockNodes ==
    (/\ docResult.op = "prepareModuleDocumentation"
     /\ \A i \in 1..Len(SubBlocks(moduleInfo.comment)) :
           LET block == SubBlocks(moduleInfo.comment)[i]
           IN  ~IsEmptyBlock(block)
                   => Resolves(moduleInfo, BlockWords(block)[1])) =>
        LET blocks == SubBlocks(moduleInfo.comment)
        IN  docResult.out =
                <<Markdown(Intro(moduleInfo.comment))>>
                    \o Flatten([i \in 1..Len(blocks) |->
                                   ClaimedNodes(moduleInfo, blocks[i])])

\* C9: a sub-block that is empty after trimming contributes nothing: the
\* result is what it would be with the empty sub-blocks absent.
C9_EmptyBlockContributesNothing ==
    docResult.op = "prepareModuleDocumentation" =>
        LET blocks == SelectSeq(SubBlocks(moduleInfo.comment),
                                LAMBDA b : ~IsEmptyBlock(b))
        IN  docResult.out =
                <<Markdown(Intro(moduleInfo.comment))>>
                    \o Flatten([i \in 1..Len(blocks) |->
                                   DocBlock(moduleInfo, blocks[i])])

BlockSize(block) == IF Len(BlockWords(block)) > 1 THEN 2 ELSE 1

\* The place in the result of the first element of the k-th sub-block.
RECURSIVE BlockStart(_, _)
BlockStart(blocks, k) ==
    IF k = 1 THEN 2
    ELSE BlockStart(blocks, k - 1) + BlockSize(blocks[k - 1])

C7_FirstTableWins ==
    docResult.op = "constructValue" =>
        LET name == docResult.name
            out == docResult.out
        IN  CASE InTable(moduleInfo.values, name) ->
                    out = [kind |-> "Value", name |-> name,
                           comment |-> <<"<p>", "v", "</p>">>,
                           type |-> <<"t">>]
              [] ~InTable(moduleInfo.values, name)
                 /\ InTable(moduleInfo.binops, name) ->
                    out = [kind |-> "Binop", name |-> name,
                           comment |-> <<"<p>", "b", "</p>">>,
                           type |-> <<"t">>]
              [] ~InTable(moduleInfo.values, name)
                 /\ ~InTable(moduleInfo.binops, name)
                 /\ InTable(moduleInfo.unions, name) ->
                    out = [kind |-> "Union", name |-> name,
                           comment |-> <<"<p>", "u", "</p>">>,
                           args |-> <<>>, tags |-> <<>>]
              [] ~InTable(moduleInfo.values, name)
                 /\ ~InTable(moduleInfo.binops, name)
                 /\ ~InTable(moduleInfo.unions, name)
                 /\ InTable(moduleInfo.aliases, name) ->
                    out = [kind |-> "Alias", name |-> name,
                           comment |-> <<"<p>", "a", "</p>">>,
                           args |-> <<>>, type |-> <<"t">>]
              [] OTHER -> out = Undefined

C7_Witness ==
    /\ docResult.op = "constructValue"
    /\ docResult.name = NameF
    /\ InTable(moduleInfo.values, NameF)
    /\ InTable(moduleInfo.binops, NameF)
    /\ InTable(moduleInfo.aliases, NameF)
    /\ docResult.out.kind = "Value"

=============================================================================
